---- MODULE Spec2Model ----
(***************************************************************************)
(* Selective yarn.lock upgrade (upgradeLock / upgradeSelectedPackages).    *)
(*                                                                         *)
(* The lockfile is a mapping from keys to entries.  A key is the sequence  *)
(* of its comma-separated descriptors; a descriptor is what                *)
(* structUtils.parseDescriptor yields (scope, name, range) and a range's   *)
(* selector is either a semver range ">= 1.n.0" or a tag that is not a     *)
(* valid semver range.  A version n stands for 1.n.0.  A canonical package *)
(* name is kept as its "/"-separated segments (<<"@jl", "pkg-b">> for      *)
(* "@jl/pkg-b") so that a glob pattern can be matched segment by segment.  *)
(***************************************************************************)
EXTENDS Integers, Sequences, FiniteSets, TLC

\* Highest version the resolver can pick (bound of the model).
MaxVersion == 2

\* Runs of upgradeLock in one behaviour: a run and its re-runs (bound).
MaxRuns == 2

\* Cap of the history counters installs / writes (bound).
MaxCount == 7

\* let counter = 5
RetryBudget == 5

Versions == 1..MaxVersion

\* ------------------------------------------------------------------ semver

\* A selector ">=1.n.0".
Ge(n) == [kind |-> "range", min |-> n]

\* A selector such as "latest": semver.validRange gives null.
Tag == [kind |-> "tag", min |-> 0]

validRange(selector) == selector.kind = "range"

satisfies(version, selector) == selector.kind = "range" /\ version >= selector.min

\* ------------------------------------------------------------- descriptors

Descriptor(scope, name, selector) == [scope |-> scope, name |-> name, range |-> selector]

\* "pkg-a@npm:>=1.1.0"
KeyA == << Descriptor("", "pkg-a", Ge(1)) >>

\* "@jl/pkg-b@npm:>=1.2.0, @jl/pkg-b@npm:latest"
KeyB1 == << Descriptor("jl", "pkg-b", Ge(2)), Descriptor("jl", "pkg-b", Tag) >>

\* "@jl/pkg-b@npm:>=1.1.0"
KeyB2 == << Descriptor("jl", "pkg-b", Ge(1)) >>

\* "__metadata"
KeyMeta == << Descriptor("", "__metadata", Tag) >>

\* Order of the keys in a lockfile (the order for..in walks a parsed file).
KeyOrder == << KeyMeta, KeyA, KeyB1, KeyB2 >>

PackageKeys == {KeyA, KeyB1, KeyB2}

\* pkg.startsWith('__')
startsWithMeta(pkg) == pkg[1].scope = "" /\ pkg[1].name = "__metadata"

\* The resolution string "name@npm:1.n.0" of an entry, parsed.
Locator(scope, name, version) == [scope |-> scope, name |-> name, reference |-> version]

\* pkg.split(',').every(desc => !validRange(selector) || satisfies(version, selector))
SatisfiesAll(pkg, version) ==
    \A i \in DOMAIN pkg :
        \/ ~validRange(pkg[i].range)
        \/ satisfies(version, pkg[i].range)

extractNameFromDescriptor(resolution) ==
    IF resolution.scope # ""
    THEN << "@" \o resolution.scope, resolution.name >>
    ELSE << resolution.name >>

\* micromatch.isMatch(name, packages): "*" matches one whole segment, never "/".
isMatch(name, packages) ==
    /\ Len(name) = Len(packages)
    /\ \A i \in DOMAIN packages : packages[i] = "*" \/ packages[i] = name[i]

\* The patterns "pkg-a" and "@jl/*".
Patterns == { << "pkg-a" >>, << "@jl", "*" >> }

\* ---------------------------------------------------------------- lockfiles

\* The entries yarn can write for a key: a version its descriptors accept.
EntriesFor(k) ==
    { [version |-> v, resolution |-> Locator(k[1].scope, k[1].name, v)] :
        v \in {w \in Versions : SatisfiesAll(k, w)} }

\* The __metadata record of a lockfile (its version field).
MetaEntry == [version |-> 0, resolution |-> Locator("", "__metadata", 0)]

AllEntries == UNION {EntriesFor(k) : k \in PackageKeys}

\* Every lockfile over the keys: __metadata and any subset of the package keys.
Files ==
    UNION { { [k \in S \cup {KeyMeta} |-> IF k = KeyMeta THEN MetaEntry ELSE g[k]] :
                g \in { h \in [S -> AllEntries] : \A k \in S : h[k] \in EntriesFor(k) } } :
            S \in SUBSET PackageKeys }

\* The __metadata record once the resolver has raised the lockfile format version.
MetaBumped == [version |-> 1, resolution |-> Locator("", "__metadata", 1)]

\* `file` as a resolver of a later lockfile format writes it.
Migrated(file) == [file EXCEPT ![KeyMeta] = MetaBumped]

\* An entry whose resolution string names no package (it is empty, or starts
\* with "@npm:"): structUtils.parseDescriptor throws on it.
Unnamed == [version |-> 1, resolution |-> Locator("", "", 1)]

\* structUtils.parseDescriptor(name.split(',')[0].trim()) throws.
parseDescriptorThrows(resolution) == resolution.name = ""

\* The lockfiles that conform to the grammar and hold one malformed record:
\* the entry of "pkg-a@npm:>=1.1.0" has a resolution that cannot be parsed.
BrokenFiles == { [f EXCEPT ![KeyA] = Unnamed] : f \in {g \in Files : KeyA \in DOMAIN g} }

\* The key under which the model keeps a lockfile text that is no document.
KeySyntaxError == << Descriptor("", "", Tag) >>

\* A lockfile whose text does not conform to the grammar: parseSyml throws.
Unparsable == [k \in {KeySyntaxError} |-> MetaEntry]

\* Everything `jlpm install` or the caller can leave on disk.
Texts == Files \cup BrokenFiles \cup {Unparsable}

\* The keys of a parsed lockfile, in file order.
KeysOf(file) == SelectSeq(KeyOrder, LAMBDA k : k \in DOMAIN file)

\* loadPackages: the lockfile on disk, parsed.
loadPackages(lockFile) == lockFile

\* loadPackages with a parser that accepts every text.
LoadNeverFails(lockFile) == FALSE

\* loadPackages throws: parseSyml rejects the text.
LoadFails(lockFile) == lockFile = Unparsable

\* extractNameFromDescriptor throws for some entry the loop over `file` visits
\* (the loop visits every key that does not start with "__").
NameFails(file) ==
    \E k \in DOMAIN file :
        ~startsWithMeta(k) /\ parseDescriptorThrows(file[k].resolution)

\* The package name -> original keys map built by upgradeLock.
BuildIndex(file) ==
    LET named == SelectSeq(KeysOf(file), LAMBDA k : ~startsWithMeta(k))
        names == {extractNameFromDescriptor(file[named[i]].resolution) : i \in DOMAIN named}
    IN  [n \in names |->
            SelectSeq(named, LAMBDA k : extractNameFromDescriptor(file[k].resolution) = n)]

\* ------------------------------------------------- upgradeSelectedPackages

\* FirstMatch falling back to the first original key when none satisfies.
FirstMatchOrFirst(pkg, origDescriptors, orig) ==
    LET hits == { i \in DOMAIN origDescriptors :
                    SatisfiesAll(pkg, orig[origDescriptors[i]].version) }
    IN  IF hits = {} THEN 1 ELSE CHOOSE i \in hits : \A j \in hits : i <= j

\* FirstMatch taking the last original key that satisfies instead of the first.
LastMatch(pkg, origDescriptors, orig) ==
    LET hits == { i \in DOMAIN origDescriptors :
                    SatisfiesAll(pkg, orig[origDescriptors[i]].version) }
    IN  IF hits = {} THEN 0 ELSE CHOOSE i \in hits : \A j \in hits : i >= j

\* Position (in the name's list of original keys) of the first original key
\* whose version satisfies every descriptor of pkg; 0 when there is none.
FirstMatch(pkg, origDescriptors, orig) ==
    LET hits == { i \in DOMAIN origDescriptors :
                    SatisfiesAll(pkg, orig[origDescriptors[i]].version) }
    IN  IF hits = {} THEN 0 ELSE CHOOSE i \in hits : \A j \in hits : i <= j

\* Decide reporting a downgrade whenever an original entry is found, equal
\* version or not.
DecideAlwaysReplace(pkg, newPkgs, index, packages, orig) ==
    IF startsWithMeta(pkg) THEN [kind |-> "meta", entry |-> newPkgs[pkg]]
    ELSE LET name == extractNameFromDescriptor(newPkgs[pkg].resolution) IN
         IF name \notin DOMAIN index THEN [kind |-> "new", entry |-> newPkgs[pkg]]
         ELSE IF isMatch(name, packages) THEN [kind |-> "ignored", entry |-> newPkgs[pkg]]
         ELSE LET i == FirstMatch(pkg, index[name], orig) IN
              IF i = 0 THEN [kind |-> "nomatch", entry |-> newPkgs[pkg]]
              ELSE [kind |-> "downgrade", entry |-> orig[index[name][i]]]

\* Decide putting the __metadata record of the original snapshot back.
DecidePinMeta(pkg, newPkgs, index, packages, orig) ==
    IF startsWithMeta(pkg) THEN [kind |-> "meta", entry |-> orig[pkg]]
    ELSE LET name == extractNameFromDescriptor(newPkgs[pkg].resolution) IN
         IF name \notin DOMAIN index THEN [kind |-> "new", entry |-> newPkgs[pkg]]
         ELSE IF isMatch(name, packages) THEN [kind |-> "ignored", entry |-> newPkgs[pkg]]
         ELSE LET i == FirstMatch(pkg, index[name], orig) IN
              IF i = 0 THEN [kind |-> "nomatch", entry |-> newPkgs[pkg]]
              ELSE LET origPkg == orig[index[name][i]] IN
                   IF origPkg.version # newPkgs[pkg].version
                   THEN [kind |-> "downgrade", entry |-> origPkg]
                   ELSE [kind |-> "same", entry |-> newPkgs[pkg]]

\* Decide without the pattern test: every package of the index is pinned back.
DecideNoPattern(pkg, newPkgs, index, packages, orig) ==
    IF startsWithMeta(pkg) THEN [kind |-> "meta", entry |-> newPkgs[pkg]]
    ELSE LET name == extractNameFromDescriptor(newPkgs[pkg].resolution) IN
         IF name \notin DOMAIN index THEN [kind |-> "new", entry |-> newPkgs[pkg]]
         ELSE LET i == FirstMatch(pkg, index[name], orig) IN
              IF i = 0 THEN [kind |-> "nomatch", entry |-> newPkgs[pkg]]
              ELSE LET origPkg == orig[index[name][i]] IN
                   IF origPkg.version # newPkgs[pkg].version
                   THEN [kind |-> "downgrade", entry |-> origPkg]
                   ELSE [kind |-> "same", entry |-> newPkgs[pkg]]

\* What the body of the for loop decides for one key of the reloaded lockfile:
\* "meta" (skipped), "new", "ignored" (in pattern), "nomatch", "same" or
\* "downgrade", with the original entry found.
Decide(pkg, newPkgs, index, packages, orig) ==
    IF startsWithMeta(pkg) THEN [kind |-> "meta", entry |-> newPkgs[pkg]]
    ELSE LET name == extractNameFromDescriptor(newPkgs[pkg].resolution) IN
         IF name \notin DOMAIN index THEN [kind |-> "new", entry |-> newPkgs[pkg]]
         ELSE IF isMatch(name, packages) THEN [kind |-> "ignored", entry |-> newPkgs[pkg]]
         ELSE LET i == FirstMatch(pkg, index[name], orig) IN
              IF i = 0 THEN [kind |-> "nomatch", entry |-> newPkgs[pkg]]
              ELSE LET origPkg == orig[index[name][i]] IN
                   IF origPkg.version # newPkgs[pkg].version
                   THEN [kind |-> "downgrade", entry |-> origPkg]
                   ELSE [kind |-> "same", entry |-> newPkgs[pkg]]

\* The whole pass over the reloaded lockfile: the snapshot after the loop and
\* whether some version has been downgraded.
upgradeSelectedPackages(lockFile, index, packages, orig) ==
    LET newPkgs == loadPackages(lockFile) IN
    [ newPkgs   |-> [pkg \in DOMAIN newPkgs |->
                        Decide(pkg, newPkgs, index, packages, orig).entry],
      hasChange |-> \E pkg \in DOMAIN newPkgs :
                        Decide(pkg, newPkgs, index, packages, orig).kind = "downgrade" ]

\* The loop test without a retry budget.
LoopForever(changed, c) == changed

\* while (upgradeSelectedPackages(...) && counter-- > 0)
LoopAgain(changed, c) == changed /\ c > 0

\* The loop test without the decrement.
CounterStuck(changed, c) == c

\* counter-- is evaluated only when the pass reported a change.
CounterAfter(changed, c) == IF changed THEN c - 1 ELSE c

\* ------------------------------------------------------------ the resolver

\* `jlpm install` is an oracle.  A resolver of kind "any" is arbitrary (and may
\* also exit nonzero); the other kinds are the resolvers of the scenarios:
\*   "idle"   leaves the lockfile as it finds it,
\*   "rebump" raises, on every call, the version of an out-of-pattern key of
\*            the original snapshot for which a satisfying original entry exists,
\*   "once"   writes `first` on its first call, which raises an in-pattern key
\*            and such an out-of-pattern key, and leaves the lockfile as it
\*            finds it afterwards,
\*   "migrate" is a "rebump" resolver of a later lockfile format that keeps
\*            the keys of the original snapshot: every lockfile it writes has
\*            the __metadata record of that format.
\* A resolver of kind "any" can also leave a malformed record or a text that
\* is no lockfile; the other kinds write well-formed lockfiles.
NoFile == [k \in {} |-> MetaEntry]

Resolver(kind, first) == [kind |-> kind, first |-> first]

\* Keys of `file` that are package keys of the original snapshot too.
Kept(file, orig) == { k \in DOMAIN file \cap DOMAIN orig : ~startsWithMeta(k) }

NameOf(orig, k) == extractNameFromDescriptor(orig[k].resolution)

\* Some original entry indexed under the name of k satisfies every descriptor of k.
HasSatisfying(k, name, index, orig) ==
    /\ name \in DOMAIN index
    /\ \E i \in DOMAIN index[name] : SatisfiesAll(k, orig[index[name][i]].version)

\* The out-of-pattern keys of the original snapshot, with a satisfying
\* original entry, whose version `file` raises.
BumpedOutOfPattern(file, index, packages, orig) ==
    { k \in Kept(file, orig) :
        /\ ~isMatch(NameOf(orig, k), packages)
        /\ HasSatisfying(k, NameOf(orig, k), index, orig)
        /\ file[k].version > orig[k].version }

\* The in-pattern keys of the original snapshot whose version `file` raises.
BumpedInPattern(file, packages, orig) ==
    { k \in Kept(file, orig) :
        /\ isMatch(NameOf(orig, k), packages)
        /\ file[k].version > orig[k].version }

\* The resolvers a run on the original snapshot `orig` can meet.
Resolvers(index, packages, orig) ==
    LET bumping == { f \in Files : BumpedOutOfPattern(f, index, packages, orig) # {} }
    IN  {Resolver("any", NoFile), Resolver("idle", NoFile)}
        \cup (IF bumping # {} THEN {Resolver("rebump", NoFile), Resolver("migrate", NoFile)}
                             ELSE {})
        \cup { Resolver("once", f) : f \in {g \in bumping : BumpedInPattern(g, packages, orig) # {}} }

\* The lockfiles resolver r can leave (or, in immutable mode, would leave) when
\* it finds `current` and has been called n times before in this run.
ResolverOutputs(r, current, n, index, packages, orig) ==
    CASE r.kind = "any"    -> Texts
      [] r.kind = "idle"   -> {current}
      [] r.kind = "rebump" ->
            { f \in Files : BumpedOutOfPattern(f, index, packages, orig) # {} }
      [] r.kind = "once"   -> IF n = 0 THEN {r.first} ELSE {current}
      [] r.kind = "migrate" ->
            { Migrated(f) : f \in { g \in Files :
                                      /\ DOMAIN g = DOMAIN orig
                                      /\ BumpedOutOfPattern(g, index, packages, orig) # {} } }

\* --------------------------------------------------------------- the state

VARIABLES
    lock,             \* the lockfile on disk
    packages,         \* the pattern given by the caller
    pkgs,             \* the original snapshot
    pkgToDescriptor,  \* package name -> keys of the original snapshot
    counter,          \* the retry counter of the do..while loop
    hasChange,        \* what the last upgradeSelectedPackages returned
    pc,               \* where upgradeLock is
    resolver,         \* which resolver `jlpm install` is in this run
    run,              \* 1 for a run, 2.. for a re-run on the lockfile a run left
    installs,         \* mutable `jlpm install` calls made in this run
    writes,           \* lockfile writes by the engine in this run
    checked,          \* `jlpm install --immutable` has been invoked in this run
    exit              \* exit status of the last `jlpm install` command

vars == << lock, packages, pkgs, pkgToDescriptor, counter, hasChange, pc, resolver,
           run, installs, writes, checked, exit >>

\* The search overlay (SearchOverlay of documentsearch) is another component:
\* its state is constant while upgradeLock runs, and the other way round.
VARIABLES
    inputText,        \* this.state.inputText
    errorMessage,     \* this.state.errorMessage
    overlayState,     \* this.props.overlayState: caseSensitive, useRegex, query
    calls,            \* the props callbacks the last handler called, in order
    executed,         \* the _executeSearch call of the last handler: its argument and what it read
    timers,           \* the timers set with setTimeout and neither fired nor cleared
    timeout,          \* the `timeout` of the _debounce closure: a timer handle, or NoHandle
    lastChange,       \* the text of the most recent change event of the input, if any
    sinceChange,      \* milliseconds since that event, counted up to Wait
    burst,            \* whether that event came less than Wait after the one before it
    runs              \* the delayed searches executed since that event

debounceVars == << timers, timeout, lastChange, sinceChange, burst, runs >>

searchVars == << inputText, errorMessage, overlayState, calls, executed, debounceVars >>

allVars == << vars, searchVars >>

\* _debouncedStartSearch = this._debounce(this._executeSearch.bind(this), 100)
Wait == 100

\* `let timeout: number;` holds no handle before the first call, and null
\* after `later` has run; clearTimeout ignores both.
NoHandle == 0

\* The closure of _debounce before its first call: nothing is scheduled.
DebounceIdle ==
    /\ timers = << >>
    /\ timeout = NoHandle
    /\ lastChange = << >>
    /\ sinceChange = Wait
    /\ burst = FALSE
    /\ runs = 0

\* The overlay with nothing typed and no query, while upgradeLock runs.
SearchIdle ==
    /\ DebounceIdle
    /\ inputText = << >>
    /\ errorMessage = ""
    /\ overlayState = [caseSensitive |-> FALSE, useRegex |-> FALSE, query |-> << >>]
    /\ calls = << >>
    /\ executed = << >>

NoIndex == [n \in {} |-> << >>]

Bump(n) == IF n < MaxCount THEN n + 1 ELSE n

Init ==
    /\ lock \in Texts
    /\ packages \in Patterns
    /\ pkgs = NoFile
    /\ pkgToDescriptor = NoIndex
    /\ counter = RetryBudget
    /\ hasChange = FALSE
    /\ pc = "INIT"
    /\ resolver = Resolver("any", NoFile)
    /\ run = 1
    /\ installs = 0
    /\ writes = 0
    /\ checked = FALSE
    /\ exit = 0
    /\ SearchIdle

\* upgradeLock up to the loop: load the lockfile, build the index, counter = 5.
LoadOriginal ==
    /\ pc = "INIT"
    /\ ~LoadFails(lock)
    /\ ~NameFails(loadPackages(lock))
    /\ pkgs' = loadPackages(lock)
    /\ pkgToDescriptor' = BuildIndex(loadPackages(lock))
    /\ counter' = RetryBudget
    /\ resolver' \in Resolvers(BuildIndex(loadPackages(lock)), packages, loadPackages(lock))
    /\ pc' = "RESOLVING"
    /\ UNCHANGED << lock, packages, hasChange, run, installs, writes, checked, exit >>
    /\ UNCHANGED searchVars

\* upgradeLock up to the loop when loadPackages or extractNameFromDescriptor
\* throws: nothing catches the exception and the run ends.
LoadOriginalThrows ==
    /\ pc = "INIT"
    /\ LoadFails(lock) \/ NameFails(loadPackages(lock))
    /\ pc' = "FAILED"
    /\ UNCHANGED << lock, packages, pkgs, pkgToDescriptor, counter, hasChange, resolver, run,
                    installs, writes, checked, exit >>
    /\ UNCHANGED searchVars

\* run(cmd) of ./utils throws when the command exits nonzero.
Throws(status) == status # 0

\* upgradeLock with the failure of a command swallowed.
AfterRunIgnored(status, then) == then

\* upgradeLock trying the install again when the command fails.
AfterRunRetry(status, then) == IF Throws(status) THEN "RESOLVING" ELSE then

\* upgradeLock catches nothing: when run(cmd) throws, the run ends in FAILED;
\* otherwise it goes on to `then`.
AfterRun(status, then) == IF Throws(status) THEN "FAILED" ELSE then

\* run('jlpm install'): the resolver rewrites the lockfile.
Install ==
    /\ pc = "RESOLVING"
    /\ lock' \in ResolverOutputs(resolver, lock, installs, pkgToDescriptor, packages, pkgs)
    /\ installs' = Bump(installs)
    /\ exit' = 0
    /\ pc' = AfterRun(0, "DIFFING")
    /\ UNCHANGED << packages, pkgs, pkgToDescriptor, counter, hasChange, resolver, run,
                    writes, checked >>
    /\ UNCHANGED searchVars

\* run('jlpm install') exits nonzero: run throws and upgradeLock ends.
InstallFails ==
    /\ pc = "RESOLVING"
    /\ resolver.kind = "any"
    /\ installs' = Bump(installs)
    /\ exit' = 1
    /\ pc' = AfterRun(1, "DIFFING")
    /\ UNCHANGED << lock, packages, pkgs, pkgToDescriptor, counter, hasChange, resolver, run,
                    writes, checked >>
    /\ UNCHANGED searchVars

\* upgradeSelectedPackages and the loop test that follows it.
Diffing ==
    /\ pc = "DIFFING"
    /\ ~LoadFails(lock)
    /\ ~NameFails(loadPackages(lock))
    /\ LET res == upgradeSelectedPackages(lock, pkgToDescriptor, packages, pkgs) IN
        /\ hasChange' = res.hasChange
        /\ lock' = IF res.hasChange THEN res.newPkgs ELSE lock
        /\ writes' = IF res.hasChange THEN Bump(writes) ELSE writes
        /\ counter' = CounterAfter(res.hasChange, counter)
        /\ pc' = IF LoopAgain(res.hasChange, counter) THEN "RESOLVING" ELSE "STABLE_CHECK"
    /\ UNCHANGED << packages, pkgs, pkgToDescriptor, resolver, run, installs, checked, exit >>
    /\ UNCHANGED searchVars

\* upgradeSelectedPackages when loadPackages or extractNameFromDescriptor throws:
\* the exception leaves the loop before the lockfile is written and nothing
\* catches it.
DiffingThrows ==
    /\ pc = "DIFFING"
    /\ LoadFails(lock) \/ NameFails(loadPackages(lock))
    /\ pc' = "FAILED"
    /\ UNCHANGED << lock, packages, pkgs, pkgToDescriptor, counter, hasChange, resolver, run,
                    installs, writes, checked, exit >>
    /\ UNCHANGED searchVars

\* Exit status of `jlpm install --immutable`, given the lockfile the resolver
\* would write and whether the command fails for another reason.
ImmutableExit(out, current, broken) == IF out = current /\ ~broken THEN 0 ELSE 1

\* run('jlpm install --immutable'): fails if the resolver would change the file.
StableCheck ==
    /\ pc = "STABLE_CHECK"
    /\ \E status \in
            { ImmutableExit(out, lock, broken) :
                out \in ResolverOutputs(resolver, lock, installs, pkgToDescriptor,
                                        packages, pkgs),
                broken \in {b \in BOOLEAN : b => resolver.kind = "any"} } :
        /\ exit' = status
        /\ pc' = AfterRun(status, "DONE")
    /\ checked' = TRUE
    /\ UNCHANGED << lock, packages, pkgs, pkgToDescriptor, counter, hasChange, resolver, run,
                    installs, writes >>
    /\ UNCHANGED searchVars

\* The same operation is run again, with the same pattern, on the lockfile
\* a run left when it reached DONE.
Rerun ==
    /\ pc = "DONE"
    /\ run < MaxRuns
    /\ run' = run + 1
    /\ pc' = "INIT"
    /\ pkgs' = NoFile
    /\ pkgToDescriptor' = NoIndex
    /\ counter' = RetryBudget
    /\ hasChange' = FALSE
    /\ resolver' = Resolver("any", NoFile)
    /\ installs' = 0
    /\ writes' = 0
    /\ checked' = FALSE
    /\ exit' = 0
    /\ UNCHANGED << lock, packages >>
    /\ UNCHANGED searchVars

Step ==
    \/ LoadOriginal
    \/ LoadOriginalThrows
    \/ Install
    \/ InstallFails
    \/ Diffing
    \/ DiffingThrows
    \/ StableCheck

Next == Step \/ Rerun

Spec == Init /\ [][Next]_allVars

\* One run of upgradeLock, in which every external call returns and the
\* (synchronous) engine keeps running.
RunSpec == Init /\ [][Step]_allVars /\ WF_vars(Step)

\* ------------------------------------------------------- the search overlay

\* Longest text in the search input (bound of the model).
MaxText == 2

\* event.keyCode === 13
KeyEnter == 13

\* event.keyCode === 27
KeyEscape == 27

\* The keys pressed in the search input: Enter, Escape and a letter ("a").
KeyCodes == {KeyEnter, KeyEscape, 65}

\* A text is the sequence of its characters: a letter and two characters that
\* are special in a regular expression.
Chars == {"a", "*", "("}

Strings == UNION { [1..n -> Chars] : n \in 0..MaxText }

\* The characters of the class [-[\]/{}()*+?.\\^$|] that a text can hold.
Special == {"*", "(", "\\"}

\* queryString.replace(/[-[\]/{}()*+?.\\^$|]/g, '\\$&')
RECURSIVE escape(_)
escape(queryString) ==
    IF queryString = << >> THEN << >>
    ELSE (IF Head(queryString) \in Special
          THEN << "\\", Head(queryString) >>
          ELSE << Head(queryString) >>) \o escape(Tail(queryString))

\* The pattern as new RegExp reads it: "lit" for a character or an escaped
\* character, "star" for a quantifier, "bad" for a group that is never closed
\* or a backslash at the end.
RECURSIVE Atoms(_)
Atoms(queryText) ==
    IF queryText = << >> THEN << >>
    ELSE IF Head(queryText) = "\\"
         THEN IF Len(queryText) = 1 THEN << "bad" >>
              ELSE << "lit" >> \o Atoms(SubSeq(queryText, 3, Len(queryText)))
    ELSE IF Head(queryText) = "(" THEN << "bad" >> \o Atoms(Tail(queryText))
    ELSE IF Head(queryText) = "*" THEN << "star" >> \o Atoms(Tail(queryText))
    ELSE << "lit" >> \o Atoms(Tail(queryText))

\* new RegExp(queryText, flag) throws a SyntaxError: an unterminated group, or
\* a quantifier with nothing to repeat.
RegExpThrows(queryText) ==
    LET t == Atoms(queryText) IN
    \E i \in DOMAIN t :
        \/ t[i] = "bad"
        \/ t[i] = "star" /\ (i = 1 \/ t[i - 1] # "lit")

\* ret.test(''): every character of the pattern is under a quantifier.
testEmpty(queryText) ==
    LET t == Atoms(queryText) IN
    \A i \in DOMAIN t : t[i] = "lit" => (i < Len(t) /\ t[i + 1] = "star")

\* A RegExp object, as far as regexEqual looks at it.
RegExp(source, global, ignoreCase) ==
    [source |-> source, global |-> global, ignoreCase |-> ignoreCase, multiline |-> FALSE]

\* /x^/
NeverMatches == RegExp(<< "x", "^" >>, FALSE, FALSE)

\* Private.parseQuery throws.
parseQueryThrows(queryString, caseSensitive, regex) ==
    RegExpThrows(IF regex THEN queryString ELSE escape(queryString))

\* Private.parseQuery, when it returns.
parseQuery(queryString, caseSensitive, regex) ==
    LET queryText == IF regex THEN queryString ELSE escape(queryString) IN
    IF testEmpty(queryText) THEN NeverMatches
    ELSE RegExp(queryText, TRUE, ~caseSensitive)

\* regexEqual comparing the sources only.
regexEqualSource(a, b) == a # << >> /\ b # << >> /\ a[1].source = b[1].source

\* Private.regexEqual; a query that may be unset is << >> or << query >>.
regexEqual(a, b) ==
    /\ a # << >>
    /\ b # << >>
    /\ a[1].source = b[1].source
    /\ a[1].global = b[1].global
    /\ a[1].ignoreCase = b[1].ignoreCase
    /\ a[1].multiline = b[1].multiline

Call(fn, args) == [fn |-> fn, args |-> args]

\* _executeSearch(goForward, text) with props.overlayState = props and
\* state.inputText = stateText: the error message it sets and the props
\* callbacks it calls.  A text that is not given is << >>, falsy like ''.
executeSearch(goForward, text, props, stateText) ==
    LET input == IF text # << >> THEN text ELSE stateText IN
    IF parseQueryThrows(input, props.caseSensitive, props.useRegex)
    THEN [errorMessage |-> "Invalid regular expression", calls |-> << >>]
    ELSE LET query == parseQuery(input, props.caseSensitive, props.useRegex) IN
         IF regexEqual(props.query, << query >>)
         THEN [errorMessage |-> "",
               calls |-> << Call(IF goForward THEN "onHightlightNext"
                                              ELSE "onHighlightPrevious", << >>) >>]
         ELSE [errorMessage |-> "", calls |-> << Call("onStartQuery", << query >>) >>]

\* upgradeLock not running, while the overlay is used.
UpgradeIdle ==
    /\ lock = NoFile
    /\ packages = << "pkg-a" >>
    /\ pkgs = NoFile
    /\ pkgToDescriptor = NoIndex
    /\ counter = RetryBudget
    /\ hasChange = FALSE
    /\ pc = "IDLE"
    /\ resolver = Resolver("any", NoFile)
    /\ run = 1
    /\ installs = 0
    /\ writes = 0
    /\ checked = FALSE
    /\ exit = 0

\* constructor: this.state = props.overlayState, which has no query yet.
SearchInit ==
    /\ inputText \in Strings
    /\ errorMessage = ""
    /\ overlayState \in [caseSensitive : BOOLEAN, useRegex : BOOLEAN, query : {<< >>}]
    /\ calls = << >>
    /\ executed = << >>
    /\ DebounceIdle
    /\ UpgradeIdle

\* What the overlay's props show after a handler whose callbacks left the
\* display state `shown`: a query given to onStartQuery has become the
\* current query, or the props still show the earlier one.
Rendered(shown, called) ==
    { [shown EXCEPT !.query = q] :
        q \in {shown.query} \cup
              { called[i].args : i \in { j \in DOMAIN called : called[j].fn = "onStartQuery" } } }

\* A handler that calls the props callbacks `before` and then
\* _executeSearch(goForward), which reads the props `seen`.
Handler(goForward, before, seen, shown) ==
    LET res == executeSearch(goForward, << >>, seen, inputText) IN
    /\ errorMessage' = res.errorMessage
    /\ calls' = before \o res.calls
    /\ executed' = << [goForward |-> goForward, input |-> inputText, props |-> seen] >>
    /\ overlayState' \in Rendered(shown, res.calls)
    /\ UNCHANGED inputText
    /\ UNCHANGED debounceVars
    /\ UNCHANGED vars

\* _onSearchKeydown: Enter searches (backwards with shift), Escape ends the search.
SearchKeydown ==
    \E keyCode \in KeyCodes, shiftKey \in BOOLEAN :
        IF keyCode = KeyEnter
        THEN Handler(~shiftKey, << >>, overlayState, overlayState)
        ELSE /\ calls' = IF keyCode = KeyEscape THEN << Call("onEndSearch", << >>) >>
                                                 ELSE << >>
             /\ executed' = << >>
             /\ UNCHANGED << inputText, errorMessage, overlayState >>
             /\ UNCHANGED debounceVars
             /\ UNCHANGED vars

\* The down button: onHightlightNext={() => this._executeSearch(true)}
HightlightNextClicked == Handler(TRUE, << >>, overlayState, overlayState)

\* The up button: onHighlightPrevious={() => this._executeSearch(false)}
HighlightPreviousClicked == Handler(FALSE, << >>, overlayState, overlayState)

\* The case button: props.onCaseSensitiveToggled() and _executeSearch(true).
\* The callback flips the flag of the display state; whether the props that
\* _executeSearch reads show the flip already is up to the owner of that state.
CaseSensitiveToggled ==
    LET flipped == [overlayState EXCEPT !.caseSensitive = ~@] IN
    \E seen \in {overlayState, flipped} :
        Handler(TRUE, << Call("onCaseSensitiveToggled", << >>) >>, seen, flipped)

\* The regex button: props.onRegexToggled() and _executeSearch(true).
RegexToggled ==
    LET flipped == [overlayState EXCEPT !.useRegex = ~@] IN
    \E seen \in {overlayState, flipped} :
        Handler(TRUE, << Call("onRegexToggled", << >>) >>, seen, flipped)

\* The time that passes between two events of the page, in milliseconds.
Delays == {50, 100}

\* event.target.value of a change event: the input emptied, or holding a
\* literal, a character that is special in a regular expression, or one that
\* alone is no regular expression.
Typed == { << >>, << "a" >>, << "*" >>, << "(" >> }

Min(a, b) == IF a < b THEN a ELSE b

\* setTimeout(later, wait): the handle of the new timer, one no pending timer has.
NewHandle(pending) ==
    CHOOSE h \in 1..(Len(pending) + 1) : \A i \in DOMAIN pending : pending[i].handle # h

\* A debounce that leaves the pending timer scheduled.
clearNothing(pending, handle) == pending

\* clearTimeout(timeout): the timer with that handle, if there is one, is no
\* longer scheduled.
clearTimeout(pending, handle) == SelectSeq(pending, LAMBDA t : t.handle # handle)

\* setTimeout(later, wait), where `later` has captured args.
setTimeout(pending, args) ==
    Append(pending, [handle |-> NewHandle(pending), args |-> args, elapsed |-> 0])

\* The function _debounce returns, called with args: clearTimeout(timeout);
\* timeout = setTimeout(later, wait).
Debounced(args) ==
    LET cleared == clearTimeout(timers, timeout) IN
    /\ timers' = setTimeout(cleared, args)
    /\ timeout' = NewHandle(cleared)

\* _onSearchChange: the input has a new value; the state takes it, and a search
\* forward for it is scheduled through _debouncedStartSearch. The handler calls
\* neither a props callback nor _executeSearch itself.
SearchChange ==
    \E text \in Typed \ {inputText} :
        /\ inputText' = text
        /\ Debounced([goForward |-> TRUE, inputText |-> text])
        /\ lastChange' = << text >>
        /\ burst' = (lastChange # << >> /\ sinceChange < Wait)
        /\ sinceChange' = 0
        /\ runs' = 0
        /\ calls' = << >>
        /\ executed' = << >>
        /\ UNCHANGED << errorMessage, overlayState >>
        /\ UNCHANGED vars

\* Time passes on the page. A timer that is due runs before more time passes;
\* an event of the same instant may still be handled before it.
Tick ==
    \E d \in Delays :
        /\ \A i \in DOMAIN timers : timers[i].elapsed < Wait
        /\ timers' = [i \in DOMAIN timers |->
                         [timers[i] EXCEPT !.elapsed = Min(@ + d, Wait)]]
        /\ sinceChange' = Min(sinceChange + d, Wait)
        /\ UNCHANGED << inputText, errorMessage, overlayState, calls, executed,
                        timeout, lastChange, burst, runs >>
        /\ UNCHANGED vars

\* `later` of a timer that is due: timeout = null; func.apply(context, args),
\* where func is _executeSearch.
Later ==
    \E i \in DOMAIN timers :
        LET args == timers[i].args
            res == executeSearch(args.goForward, args.inputText, overlayState, inputText)
        IN  /\ timers[i].elapsed >= Wait
            /\ timers' = SelectSeq(timers, LAMBDA t : t.handle # timers[i].handle)
            /\ timeout' = NoHandle
            /\ errorMessage' = res.errorMessage
            /\ calls' = res.calls
            /\ executed' = << [goForward |-> args.goForward,
                               input |-> IF args.inputText # << >> THEN args.inputText
                                                                  ELSE inputText,
                               props |-> overlayState] >>
            /\ overlayState' \in Rendered(overlayState, res.calls)
            /\ runs' = runs + 1
            /\ UNCHANGED << inputText, lastChange, sinceChange, burst >>
            /\ UNCHANGED vars

SearchNext ==
    \/ SearchChange
    \/ Tick
    \/ Later
    \/ SearchKeydown
    \/ HightlightNextClicked
    \/ HighlightPreviousClicked
    \/ CaseSensitiveToggled
    \/ RegexToggled

SearchSpec == SearchInit /\ [][SearchNext]_allVars

\* ---------------------------------------------------------------- claims

\* The canonical name of the entry at key k of a lockfile.
CanonicalName(file, k) == extractNameFromDescriptor(file[k].resolution)

\* The keys of the index listed under a name.
OriginalKeys(name) == { pkgToDescriptor[name][i] : i \in DOMAIN pkgToDescriptor[name] }

\* Key k of the lockfile belongs to a package of the original snapshot.
PreExisting(k) ==
    /\ k \in DOMAIN lock
    /\ ~startsWithMeta(k)
    /\ CanonicalName(lock, k) \in DOMAIN pkgToDescriptor

InPattern(k) == PreExisting(k) /\ isMatch(CanonicalName(lock, k), packages)

OutOfPattern(k) == PreExisting(k) /\ ~isMatch(CanonicalName(lock, k), packages)

\* The original keys under the name of k whose version satisfies every descriptor of k.
SatisfyingOriginals(k) ==
    { m \in OriginalKeys(CanonicalName(lock, k)) : SatisfiesAll(k, pkgs[m].version) }

Terminated == pc \in {"DONE", "FAILED"}

\* The lockfile conforms to the grammar and every record of it can be named:
\* a pass over it runs to its end.
Sound(file) == file \notin BrokenFiles \cup {Unparsable}

\* A pass of upgradeSelectedPackages has been made since the last install.
AfterPass == installs >= 1 /\ pc \in {"RESOLVING", "STABLE_CHECK", "DONE"}

\* C1: when a run reaches DONE, every out-of-pattern key of a package of the
\* original snapshot for which some original entry under that name satisfies
\* all its descriptors carries the package's original version: its own
\* original version if the key was in the original snapshot, the version of a
\* satisfying original entry otherwise.
ScopeInvariantOutOfPattern ==
    pc = "DONE" =>
        \A k \in DOMAIN lock :
            (OutOfPattern(k) /\ SatisfyingOriginals(k) # {}) =>
                IF k \in DOMAIN pkgs
                THEN lock[k].version = pkgs[k].version
                ELSE lock[k].version \in {pkgs[m].version : m \in SatisfyingOriginals(k)}

\* C2: a pass of upgradeSelectedPackages (over a lockfile it can read) leaves
\* every in-pattern entry of a package of the index exactly as the install
\* before it wrote it, and reports a change only if it replaced the entry of
\* an out-of-pattern key.
InPatternUntouched ==
    [][ (pc = "DIFFING" /\ Sound(lock)) =>
          /\ \A k \in DOMAIN lock :
                InPattern(k) => (k \in DOMAIN lock' /\ lock'[k] = lock[k])
          /\ hasChange' => \E k \in DOMAIN lock : OutOfPattern(k) /\ lock'[k] # lock[k]
      ]_vars

\* C2 witness: after a pass that reported no change, an in-pattern key of the
\* original snapshot carries a version other than its original one.
InPatternBumpKept ==
    /\ AfterPass
    /\ ~hasChange
    /\ \E k \in DOMAIN lock \cap DOMAIN pkgs :
          InPattern(k) /\ lock[k].version # pkgs[k].version

\* C3: a run is in DONE only if the immutable install was invoked and exited
\* with status 0; no pass and no mutable install follows the immutable install;
\* once it has exited nonzero the run is in FAILED.
StabilityGate ==
    /\ pc = "DONE" => (checked /\ exit = 0)
    /\ checked => Terminated
    /\ (checked /\ exit # 0) => pc = "FAILED"

\* C3 witness: a run in DONE that left the loop with its retry budget used
\* up, the last pass having still reported a change.
DoneAfterBudget ==
    pc = "DONE" /\ checked /\ exit = 0 /\ hasChange /\ counter < 0

\* C4: in a run the engine makes at most 5 mutable installs (each followed by
\* at most one pass of upgradeSelectedPackages).
AtMostFiveInstalls == installs <= RetryBudget

\* C5: every run ends in DONE or in FAILED.
Termination == <>Terminated

\* C5 witness: a run that ended after its loop went round as often as it can.
EndedAfterFullLoop == Terminated /\ counter < 0 /\ checked

\* C6: with a resolver that raises an out-of-pattern original key on every
\* call and fails in immutable mode exactly when it would change the
\* lockfile, a run that ends ends in FAILED on the immutable install.
RebumpEndsInStabilityFailure ==
    (resolver.kind = "rebump" /\ Terminated) => (pc = "FAILED" /\ checked /\ exit # 0)

\* C7: a re-run, on the lockfile a run left in DONE, with a resolver that
\* leaves that lockfile alone, has after its first pass written nothing and
\* made one install, and goes through the immutable install into DONE.
IdempotentRerun ==
    (run > 1 /\ resolver.kind = "idle" /\ installs >= 1 /\ pc # "DIFFING") =>
        (writes = 0 /\ installs = 1 /\ pc \in {"STABLE_CHECK", "DONE"})

\* C8: with a resolver that on its first call raises an in-pattern key and an
\* out-of-pattern key of the original snapshot (one whose original entry
\* satisfies it) and afterwards leaves the lockfile alone, a run that ends is
\* in DONE, has written the lockfile once and made two installs, every
\* in-pattern key raised is at the version the first install gave it and
\* every out-of-pattern key raised is back at its original version.
ScenarioAOneCycle ==
    (resolver.kind = "once" /\ Terminated) =>
        /\ pc = "DONE"
        /\ writes = 1
        /\ installs = 2
        /\ \A k \in BumpedInPattern(resolver.first, packages, pkgs) :
              k \in DOMAIN lock /\ lock[k].version = resolver.first[k].version
        /\ \A k \in BumpedOutOfPattern(resolver.first, pkgToDescriptor, packages, pkgs) :
              k \in DOMAIN lock /\ lock[k].version = pkgs[k].version

\* Key k of the lockfile belongs to a package that is not in the index.
IsNew(k) ==
    /\ k \in DOMAIN lock
    /\ ~startsWithMeta(k)
    /\ CanonicalName(lock, k) \notin DOMAIN pkgToDescriptor

\* C9: a pass (over a lockfile it can read) leaves every entry of a package
\* absent from the index as the install wrote it, and a pass over a lockfile
\* that has such entries and whose other entries are those of the original
\* snapshot reports no change, writes nothing and goes to the immutable install.
NewPackagesKept ==
    [][ (pc = "DIFFING" /\ Sound(lock)) =>
          /\ \A k \in DOMAIN lock :
                IsNew(k) => (k \in DOMAIN lock' /\ lock'[k] = lock[k])
          /\ ( /\ \E k \in DOMAIN lock : IsNew(k)
               /\ \A k \in DOMAIN lock :
                     ~IsNew(k) => (k \in DOMAIN pkgs /\ lock[k] = pkgs[k]) )
             => (~hasChange' /\ lock' = lock /\ writes' = writes /\ pc' = "STABLE_CHECK")
      ]_vars

\* C10: a pass (over a lockfile it can read) leaves the entry of an
\* out-of-pattern key of an indexed package unmodified when no original entry
\* under the name satisfies all its descriptors; a change is reported only for
\* a replaced key that has such an entry; the pass does not end the run, and
\* goes to the immutable install when it reports no change.
NoMatchKept ==
    [][ (pc = "DIFFING" /\ Sound(lock)) =>
          /\ \A k \in DOMAIN lock :
                (OutOfPattern(k) /\ SatisfyingOriginals(k) = {}) =>
                    (k \in DOMAIN lock' /\ lock'[k] = lock[k])
          /\ hasChange' =>
                \E k \in DOMAIN lock :
                    OutOfPattern(k) /\ SatisfyingOriginals(k) # {} /\ lock'[k] # lock[k]
          /\ pc' \in {"RESOLVING", "STABLE_CHECK"}
          /\ ~hasChange' => pc' = "STABLE_CHECK"
      ]_vars

\* C10 witness: the immutable install is reached with an out-of-pattern key
\* of an indexed package that no original entry satisfies still in the file.
NoMatchReachesStableCheck ==
    /\ pc = "STABLE_CHECK"
    /\ \E k \in DOMAIN lock : OutOfPattern(k) /\ SatisfyingOriginals(k) = {}

\* Place of a key in the lockfile.
Position(k) == CHOOSE i \in DOMAIN KeyOrder : KeyOrder[i] = k

\* The satisfying original key of k that comes first in the original lockfile.
FirstSatisfyingOriginal(k) ==
    CHOOSE m \in SatisfyingOriginals(k) :
        \A n \in SatisfyingOriginals(k) : Position(m) <= Position(n)

DescriptorErrorIsolated ==
    [][ (pc \in {"INIT", "DIFFING"} /\ lock \in BrokenFiles) =>
            pc' \in {"RESOLVING", "STABLE_CHECK"}
      ]_vars

\* C13: when a mutable install exits nonzero the run is in FAILED at once,
\* with the lockfile as it was and the immutable install not invoked, and
\* nothing follows FAILED: no pass, no write, no install of either mode.
ResolveFailureFatal ==
    [][ /\ (pc = "RESOLVING" /\ exit' # 0) =>
              (pc' = "FAILED" /\ lock' = lock /\ writes' = writes /\ ~checked')
        /\ pc # "FAILED"
      ]_vars

\* C13 witness: a run ended by a mutable install that failed inside the loop,
\* after a pass had written the lockfile.
InstallFailedInLoop ==
    pc = "FAILED" /\ exit # 0 /\ ~checked /\ installs >= 2 /\ writes >= 1

\* C14: when the lockfile on disk does not conform to the grammar, loading it
\* at the start of upgradeLock or reloading it in a pass ends the run in FAILED
\* at once: the lockfile is not written, no install of either mode is made in
\* that step, and nothing follows FAILED.
ParseErrorFatal ==
    [][ /\ (pc \in {"INIT", "DIFFING"} /\ lock = Unparsable) =>
              /\ pc' = "FAILED"
              /\ lock' = lock
              /\ writes' = writes
              /\ installs' = installs
              /\ checked' = checked
        /\ pc = "INIT" => (installs = 0 /\ writes = 0 /\ ~checked)
        /\ pc = "DIFFING" => ~checked
        /\ pc # "FAILED"
      ]_vars

\* C14 witness: a run ended by a reload that failed in a pass of the loop,
\* after an earlier pass had written the lockfile.
ReloadFailedInPass ==
    /\ pc = "FAILED"
    /\ lock = Unparsable
    /\ exit = 0
    /\ ~checked
    /\ installs >= 2
    /\ writes >= 1

\* C15: no key that starts with "__" is in the index; a pass (over a lockfile
\* it can read) leaves the entry of every such key as the install before it
\* wrote it, in the lockfile it writes too, and reports a change only if it
\* replaced the entry of another key.
MetadataPassThrough ==
    [][ /\ (pc = "DIFFING" /\ Sound(lock)) =>
              /\ \A k \in DOMAIN lock :
                    startsWithMeta(k) => (k \in DOMAIN lock' /\ lock'[k] = lock[k])
              /\ hasChange' =>
                    \E k \in DOMAIN lock : ~startsWithMeta(k) /\ lock'[k] # lock[k]
        /\ \A n \in DOMAIN pkgToDescriptor' :
              \A i \in DOMAIN pkgToDescriptor'[n] : ~startsWithMeta(pkgToDescriptor'[n][i])
      ]_vars

\* C15 witness: a pass has just written the lockfile, and its __metadata
\* record is not the one of the original snapshot.
MetadataOfReloadWritten ==
    /\ pc = "RESOLVING"
    /\ installs >= 1
    /\ hasChange
    /\ writes >= 1
    /\ lock[KeyMeta] # pkgs[KeyMeta]

\* C16: the pass made when the retry budget is used up, if it still reverts
\* an entry (and writes the lockfile), does not end the run: it goes to the
\* immutable install, which is invoked once and ends the run in DONE when it
\* exits 0 and in FAILED otherwise; no pass is made after that one.
BudgetExhaustionNotFatal ==
    [][ /\ (pc = "DIFFING" /\ counter = 0 /\ writes' # writes) =>
              (hasChange' /\ pc' = "STABLE_CHECK" /\ ~checked')
        /\ pc = "STABLE_CHECK" =>
              (~checked /\ checked' /\ pc' = IF exit' = 0 THEN "DONE" ELSE "FAILED")
        /\ counter < 0 => pc \in {"STABLE_CHECK", "DONE"}
      ]_vars

\* C16 witness: with a resolver that bumps again on every call, the run used
\* its whole budget, the last pass still reverted, and the immutable install
\* then failed.
FailedAfterBudget ==
    /\ pc = "FAILED"
    /\ resolver.kind = "rebump"
    /\ checked
    /\ exit # 0
    /\ hasChange
    /\ counter < 0

\* C17: in a run no pass and no immutable install comes before the first
\* mutable install; a pass directly follows a mutable install, and only a pass
\* writes the lockfile; once the immutable install has been invoked the run
\* makes no install and no write; and a pass that writes the lockfile is
\* followed by a mutable install, not by the immutable install.
CallOrdering ==
    [][ /\ installs = 0 => (pc \in {"INIT", "RESOLVING"} /\ ~checked')
        /\ pc' = "DIFFING" => (pc = "RESOLVING" /\ installs' = installs + 1)
        /\ writes' = writes + 1 => pc = "DIFFING"
        /\ (pc # "DIFFING" /\ run' = run) => (lock' = lock \/ pc = "RESOLVING")
        /\ checked => (pc = "DONE" /\ run' = run + 1)
        /\ checked' => pc = "STABLE_CHECK"
        /\ (pc = "DIFFING" /\ writes' = writes + 1) => pc' = "RESOLVING"
      ]_vars

\* C18: a pass (over a lockfile it can read) that reports no change leaves the
\* lockfile as the last mutable install wrote it and goes to the immutable
\* install without another install, and the immutable install does not change
\* the lockfile; a pass writes the lockfile exactly when it reports a change,
\* which is exactly when it replaced the entry of some key by an entry of the
\* original snapshot that has another version.
WriteOnlyOnChange ==
    [][ /\ (pc = "DIFFING" /\ Sound(lock)) =>
              /\ ~hasChange' =>
                    /\ lock' = lock
                    /\ writes' = writes
                    /\ installs' = installs
                    /\ pc' = "STABLE_CHECK"
              /\ hasChange' <=> writes' = writes + 1
              /\ writes' = writes => lock' = lock
              /\ writes' = writes + 1 <=>
                    \E k \in DOMAIN lock :
                        /\ lock'[k].version # lock[k].version
                        /\ \E m \in DOMAIN pkgs : ~startsWithMeta(m) /\ lock'[k] = pkgs[m]
        /\ pc = "STABLE_CHECK" => (lock' = lock /\ installs' = installs)
      ]_vars

\* C18 witness: the immutable install is about to run after a pass that
\* reported no change, in a run whose earlier pass had written the lockfile.
CleanPassAfterWrite ==
    pc = "STABLE_CHECK" /\ ~hasChange /\ writes >= 1 /\ installs >= 2

\* C19: when the first mutable install leaves the lockfile identical to the
\* original snapshot, the first pass reports no change, writes nothing and
\* goes to the immutable install after that one install.
NoRevertWithoutDrift ==
    [][ (pc = "DIFFING" /\ installs = 1 /\ lock = pkgs) =>
            /\ ~hasChange'
            /\ lock' = lock
            /\ writes' = 0
            /\ installs' = 1
            /\ pc' = "STABLE_CHECK"
      ]_vars

\* The callbacks among onStartQuery, onHightlightNext and onHighlightPrevious
\* that the last handler called.
Dispatched ==
    SelectSeq(calls, LAMBDA c : c.fn \in {"onStartQuery", "onHightlightNext",
                                          "onHighlightPrevious"})

\* C20: after a call of _executeSearch(goForward): if the input does not parse
\* into a query, an error message is set and none of onStartQuery,
\* onHightlightNext, onHighlightPrevious has been called; if it parses into a
\* query with the source, global, ignoreCase and multiline of the current query,
\* exactly one callback has been called, onHightlightNext when goForward and
\* onHighlightPrevious otherwise; if not, and always when no query is current,
\* exactly one callback has been called, onStartQuery with the parsed query.
SearchDispatch ==
    executed # << >> =>
        LET e == executed[1]
            current == e.props.query
        IN  IF parseQueryThrows(e.input, e.props.caseSensitive, e.props.useRegex)
            THEN errorMessage # "" /\ Dispatched = << >>
            ELSE LET query == parseQuery(e.input, e.props.caseSensitive, e.props.useRegex)
                     same == /\ current # << >>
                             /\ current[1].source = query.source
                             /\ current[1].global = query.global
                             /\ current[1].ignoreCase = query.ignoreCase
                             /\ current[1].multiline = query.multiline
                 IN  /\ same =>
                           Dispatched = << Call(IF e.goForward THEN "onHightlightNext"
                                                              ELSE "onHighlightPrevious",
                                                << >>) >>
                     /\ ~same => Dispatched = << Call("onStartQuery", << query >>) >>
                     /\ current = << >> => Dispatched = << Call("onStartQuery", << query >>) >>

\* C20 witness: a search backwards for the text that is the current query has
\* called onHighlightPrevious, and nothing else.
NavigatedBackwards ==
    /\ executed # << >>
    /\ ~executed[1].goForward
    /\ executed[1].props.query # << >>
    /\ calls = << Call("onHighlightPrevious", << >>) >>

\* C21: at most one delayed search is pending at any time, and after a change
\* event of the search input either the search for its text is the one pending
\* and none has executed, or none is pending and exactly one has executed,
\* whether or not the event was one of a burst; a change event leaves no timer
\* pending but the one it has just set; and a delayed search executes only
\* once Wait milliseconds have passed since the most recent change event, as a
\* search forward for the text of that event.
DebounceOnce ==
    /\ [](/\ Len(timers) <= 1
          /\ lastChange # << >> =>
                \/ /\ Len(timers) = 1
                   /\ timers[1].args.inputText = lastChange[1]
                   /\ runs = 0
                \/ /\ timers = << >>
                   /\ runs = 1)
    /\ [][/\ inputText' # inputText =>
                \A i \in DOMAIN timers' : timers'[i].elapsed = 0
          /\ runs' = runs + 1 =>
                /\ sinceChange >= Wait
                /\ lastChange' = lastChange
                /\ executed' # << >>
                /\ executed'[1].goForward
                /\ executed'[1].input = lastChange[1]]_allVars

\* C21 witness: the last of a burst of change events brought a text, and the
\* one delayed search of the burst has executed, for that text.
BurstSearched ==
    /\ burst
    /\ lastChange # << >>
    /\ lastChange[1] # << >>
    /\ timers = << >>
    /\ runs = 1
    /\ executed # << >>
    /\ executed[1].input = lastChange[1]
    /\ calls # << >>

====
